---- MODULE Spec2Model ----
(***************************************************************************)
(* Model of src/rbw.rs: the wrappers around the `rbw` CLI.                 *)
(*                                                                         *)
(* One process calls the public operations one after the other.  Each      *)
(* operation is a short sequence of steps, one per blocking interaction    *)
(* with a subprocess.  Text (paths, stderr, notes, payloads) is a sequence *)
(* of tokens; a Rust Option<T> is a set with at most one element.          *)
(***************************************************************************)
EXTENDS Integers, Sequences, FiniteSets, TLC

\* ---------------------------------------------------------------- bounds
MaxItems == 2        \* longest `rbw list --raw` array
MaxNotesLen == 2     \* longest notes_content, in tokens
MaxExit == 1         \* exit statuses are 0..MaxExit

\* ------------------------------------------------------------- text model
NL == "\n"
SP == " "
Whitespace == {SP, NL}

RECURSIVE TrimStart(_)
TrimStart(s) ==
    IF s # <<>> /\ Head(s) \in Whitespace THEN TrimStart(Tail(s)) ELSE s

RECURSIVE TrimEnd(_)
TrimEnd(s) ==
    IF s # <<>> /\ s[Len(s)] \in Whitespace
    THEN TrimEnd(SubSeq(s, 1, Len(s) - 1))
    ELSE s

\* str::trim of the stderr text (lines 90, 239)
TrimNone(s) == s
Trim(s) == TrimEnd(TrimStart(s))

\* str::contains
Contains(s, p) ==
    \E i \in 1..(Len(s) + 1) :
        /\ i + Len(p) - 1 <= Len(s)
        /\ SubSeq(s, i, i + Len(p) - 1) = p

\* str::starts_with
StartsWith(s, p) == Len(p) <= Len(s) /\ SubSeq(s, 1, Len(p)) = p

\* ------------------------------------------------------ terminal resolver
DevPrefix == <<"/", "dev", "/">>
DevTty == <<"/", "dev", "/", "tty">>
DevPts == <<"/", "dev", "/", "pts", "/", "3">>
TmpLog == <<"/", "tmp", "/", "err.log">>

\* what read_link("/proc/self/fd/N") can give: an error ({}) or a target
LinkTargets == {DevPts, DevTty, TmpLog}
LinkResults == {{}} \cup {{t} : t \in LinkTargets}

VARIABLES
    fd2Link,        \* read_link("/proc/self/fd/2")
    fd0Link,        \* read_link("/proc/self/fd/0")
    devTtyExists,   \* Path::new("/dev/tty").exists()
    ownRbwTty,      \* RBW_TTY in the adapter's own environment
    pc,             \* position of the running operation
    op,             \* the operation being run and its arguments
    cmds,           \* the Commands this operation has run, in order
    spinner,        \* "none", "spinning", "stopped", "dropped"
    stdinBytes,     \* what was written to the child's stdin
    output,         \* exit status / stdout / stderr of the vault subcommand
    result,         \* what the operation returned
    ranBefore       \* an earlier operation of this process run has returned

envVars == <<fd2Link, fd0Link, devTtyExists, ownRbwTty>>
vars == <<fd2Link, fd0Link, devTtyExists, ownRbwTty, pc, op, cmds, spinner,
          stdinBytes, output, result, ranBefore>>

\* one probe of the loop of real_tty_path: the link target if it is a /dev/ path
Probe(link) == {p \in link : StartsWith(p, DevPrefix)}

real_tty_path_stdin_first(l2, l0, tty) ==
    IF Probe(l0) # {} THEN Probe(l0)
    ELSE IF Probe(l2) # {} THEN Probe(l2)
    ELSE IF tty THEN {DevTty}
    ELSE {}

real_tty_path(l2, l0, tty) ==
    IF Probe(l2) # {} THEN Probe(l2)
    ELSE IF Probe(l0) # {} THEN Probe(l0)
    ELSE IF tty THEN {DevTty}
    ELSE {}

Resolved == real_tty_path(fd2Link, fd0Link, devTtyExists)

\* RBW_TTY of a child: Command inherits the adapter's environment and
\* set_rbw_tty overrides RBW_TTY only when a path was resolved.
set_rbw_tty_keep_own(inherited) == IF inherited # {} THEN inherited ELSE Resolved
set_rbw_tty(inherited) == IF Resolved # {} THEN Resolved ELSE inherited

\* ------------------------------------------------------------ input sets
ExitCodes == 0..MaxExit
Names == {"api"}
Folders == {"", "work"}
ItemTypes == {"Login", "Note"}
NoteTokens == {"k=v", NL}

RECURSIVE SeqsUpTo(_, _)
SeqsUpTo(S, n) ==
    IF n = 0 THEN {<<>>}
    ELSE LET shorter == SeqsUpTo(S, n - 1)
         IN  shorter \cup {Append(q, x) : q \in shorter, x \in S}

NotesContents == SeqsUpTo(NoteTokens, MaxNotesLen)

\* struct ListItem (lines 20-25); folder is an Option<String>
ListItem == [name : {"api", "db"}, folder : {{}, {""}, {"work"}},
             item_type : ItemTypes]

\* struct RbwItem (lines 28-33); both fields are Options
RbwItem == [item_type : {{}, {"Login"}, {"Note"}}, notes : {{}, {<<"k=v">>}}]
NoItem == [item_type |-> {}, notes |-> {}]

\* what the subprocess can print on stdout, as a JSON document
MalformedDoc == [kind |-> "malformed", items |-> <<>>, item |-> NoItem]
ArrayDoc(items) == [kind |-> "array", items |-> items, item |-> NoItem]
ObjectDoc(item) == [kind |-> "object", items |-> <<>>, item |-> item]
ListDocs == {ArrayDoc(q) : q \in SeqsUpTo(ListItem, MaxItems)}
ItemDocs == {ObjectDoc(i) : i \in RbwItem}
EmptyDoc == ArrayDoc(<<>>)

\* serde_json::from_slice::<Vec<ListItem>> and ::<RbwItem>: Err is {}
ParseList(doc) == IF doc.kind = "array" THEN {doc.items} ELSE {}
ParseItem(doc) == IF doc.kind = "object" THEN {doc.item} ELSE {}

\* what the subprocess can print on stderr
NoEntryFound == <<"no", SP, "entry", SP, "found">>
NoItemsFound == <<"no", SP, "items", SP, "found">>
EntryNotFound == <<"Entry", SP, "not", SP, "found">>
StderrCores ==
    {NoEntryFound, NoItemsFound, EntryNotFound,
     <<"entry", SP, "not", SP, "found">>, <<"no", SP, "entry">>,
     <<"agent", SP, "unreachable">>, <<>>}
StderrTexts ==
    {pre \o core \o post :
        pre \in {<<>>, <<SP, "rbw:", SP>>},
        core \in StderrCores,
        post \in {<<>>, <<NL>>}}
\* what a failing `rbw add` / `rbw edit` prints on the inherited stderr
PipeStderrTexts == {<<>>, <<"agent", SP, "unreachable", NL>>}

\* ----------------------------------------------------------------- errors
\* an anyhow error, as the parts its message is formatted from
Err(fmt, cmd, status, text) ==
    [fmt |-> fmt, cmd |-> cmd, status |-> status, text |-> text]
NoErr == Err("", "", {}, <<>>)
ContextErr(msg) == Err(msg, "", {}, <<>>)

\* bail! of check_status (line 239) and of get_item (line 90)
FailedErr(cmd, status, stderr) ==
    Err("CMD failed (STATUS): STDERR", cmd, {status}, Trim(stderr))

\* check_status: {} is Ok(()), {e} is Err(e)
check_status(cmd, out) ==
    IF out.status # {0} THEN {FailedErr(cmd, CHOOSE s \in out.status : TRUE, out.stderr)}
    ELSE {}

\* the not-found test of get_item
IsNotFoundTwoPhrasings(stderr) ==
    \/ Contains(stderr, NoEntryFound)
    \/ Contains(stderr, NoItemsFound)

IsNotFound(stderr) ==
    \/ Contains(stderr, NoEntryFound)
    \/ Contains(stderr, NoItemsFound)
    \/ Contains(stderr, EntryNotFound)

\* ------------------------------------------------------------ operations
Kinds == {"list", "get", "create", "edit", "delete"}
CaptureKinds == {"list", "get", "delete"}
PipeKinds == {"create", "edit"}

Op(kind, name, folder, notes, secure, stored) ==
    [name |-> name, folder |-> folder, notes |-> notes, kind |-> kind,
     stored |-> stored, is_secure_note |-> secure]
NoOp == Op("none", "", "", <<>>, FALSE, "")

\* the arguments of the operation's own rbw subcommand
VaultArgs(o) ==
    CASE o.kind = "list" -> <<"list", "--raw">>
      [] o.kind = "get" -> <<"get", "--raw", "--folder", o.folder, o.name>>
      [] o.kind = "create" -> <<"add", "--folder", o.folder, o.name>>
      [] o.kind = "edit" -> <<"edit", "--folder", o.folder, o.name>>
      [] o.kind = "delete" -> <<"remove", "--folder", o.folder, o.name>>

\* the name check_status / bail! put in the message
CmdName(kind) ==
    CASE kind = "list" -> "rbw list"
      [] kind = "get" -> "rbw get"
      [] kind = "delete" -> "rbw remove"
      [] OTHER -> "rbw"

\* the bytes piped to rbw's stdin
PayloadAlwaysLeading(kind, notes, secure) == <<NL>> \o notes \o <<NL>>
Payload(kind, notes, secure) ==
    IF kind = "edit" /\ secure
    THEN notes \o <<NL>>
    ELSE <<NL>> \o notes \o <<NL>>

\* names of the items of `folder`, in the order listed
RECURSIVE FilterNames(_, _)
RECURSIVE FilterNamesSomeOnly(_, _)
FilterNamesSomeOnly(items, folder) ==
    IF items = <<>> THEN <<>>
    ELSE (IF Head(items).folder = {folder} THEN <<Head(items).name>> ELSE <<>>)
         \o FilterNamesSomeOnly(Tail(items), folder)

FilterNames(items, folder) ==
    IF items = <<>> THEN <<>>
    ELSE LET f == IF Head(items).folder = {} THEN ""
                  ELSE CHOOSE x \in Head(items).folder : TRUE
         IN  (IF f = folder THEN <<Head(items).name>> ELSE <<>>)
             \o FilterNames(Tail(items), folder)

\* a Command: its arguments, what real_tty_path returned when it was built,
\* the RBW_TTY of the child, the child's fate
\* ("none": never spawned, "running", "reaped", "wait_failed") and exit status
Cmd(args, child, exit) ==
    [args |-> args, child |-> child, exit |-> exit, tty_path |-> Resolved,
     rbw_tty |-> set_rbw_tty(ownRbwTty)]

NoOutput == [status |-> {}, stderr |-> <<>>, stdout |-> EmptyDoc, captured |-> FALSE]
Output(status, stdout, stderr, captured) ==
    [status |-> {status}, stderr |-> stderr, stdout |-> stdout, captured |-> captured]

\* results: Ok(()) / Ok(names) are "ok", Ok(None) "absent", Ok(Some) "present"
Res(tag, names, item, err) == [item |-> item, tag |-> tag, names |-> names, err |-> err]
Running == Res("running", <<>>, NoItem, NoErr)
OkUnit == Res("ok", <<>>, NoItem, NoErr)
OkNames(names) == Res("ok", names, NoItem, NoErr)
Absent == Res("absent", <<>>, NoItem, NoErr)
Present(item) == Res("present", <<>>, item, NoErr)
Fatal(e) == Res("err", <<>>, NoItem, e)

\* outcomes of running a subprocess to completion: an io error or an exit status
IoErr == <<"err", 0>>
Outcomes == {IoErr} \cup {<<"exit", s>> : s \in ExitCodes}

\* every public operation starts with the guard (lines 39, 69, 132, 204)
BodyStep(kind) == IF kind \in PipeKinds THEN "pipe_spawn" ELSE "capture_spawn"
EntryPointDeleteUnguarded(kind) ==
    IF kind = "delete" THEN BodyStep(kind) ELSE "ensure_unlocked"
EntryPoint(kind) == "ensure_unlocked"

\* !output.status.success() of ensure_unlocked (line 157)
NeedsUnlock(status) == status # 0
\* !status.success() of ensure_unlocked (line 165)
UnlockFailedIgnored(status) == FALSE
UnlockFailed(status) == status # 0

Init ==
    /\ fd2Link \in LinkResults
    /\ fd0Link \in LinkResults
    /\ devTtyExists \in BOOLEAN
    /\ ownRbwTty \in {{}, {DevTty}}
    /\ pc = "idle"
    /\ op = NoOp
    /\ cmds = <<>>
    /\ spinner = "none"
    /\ stdinBytes = <<>>
    /\ output = NoOutput
    /\ result = Running
    /\ ranBefore = FALSE

\* entering a public operation: nothing of the previous call is kept
Enter(o) ==
    /\ pc = "idle"
    /\ op' = o
    /\ pc' = EntryPoint(o.kind)
    /\ cmds' = <<>>
    /\ spinner' = "none"
    /\ stdinBytes' = <<>>
    /\ output' = NoOutput
    /\ result' = Running
    /\ UNCHANGED <<envVars, ranBefore>>

\* returning to the caller
Return(r) ==
    /\ result' = r
    /\ pc' = "returned"

\* the caller has taken the result; the locals of the call are gone
CallerResumes ==
    /\ pc = "returned"
    /\ pc' = "idle"
    /\ op' = NoOp
    /\ cmds' = <<>>
    /\ spinner' = "none"
    /\ stdinBytes' = <<>>
    /\ output' = NoOutput
    /\ result' = Running
    /\ ranBefore' = TRUE
    /\ UNCHANGED envVars

list_namespaces(folder) == Enter(Op("list", "", folder, <<>>, FALSE, ""))

get_item(name, folder) == Enter(Op("get", name, folder, <<>>, FALSE, ""))

create_item(name, folder, notes_content) ==
    Enter(Op("create", name, folder, notes_content, FALSE, ""))

\* `stored` is the type the vault holds for the entry; the code never reads it
edit_item(name, folder, notes_content, is_secure_note, stored) ==
    Enter(Op("edit", name, folder, notes_content, is_secure_note, stored))

delete_item(name, folder) == Enter(Op("delete", name, folder, <<>>, FALSE, ""))

\* ensure_unlocked, first half: `rbw unlocked` run to completion by output()
RunUnlocked ==
    /\ pc = "ensure_unlocked"
    /\ \E o \in Outcomes :
        IF o = IoErr
        THEN /\ cmds' = Append(cmds, Cmd(<<"unlocked">>, "none", {}))
             /\ Return(Fatal(ContextErr("failed to run rbw unlocked")))
        ELSE /\ cmds' = Append(cmds, Cmd(<<"unlocked">>, "reaped", {o[2]}))
             /\ pc' = IF NeedsUnlock(o[2]) THEN "unlock" ELSE BodyStep(op.kind)
             /\ result' = result
    /\ UNCHANGED <<envVars, op, spinner, stdinBytes, output, ranBefore>>

\* ensure_unlocked, second half: `rbw unlock` run to completion by status()
RunUnlock ==
    /\ pc = "unlock"
    /\ \E o \in Outcomes :
        IF o = IoErr
        THEN /\ cmds' = Append(cmds, Cmd(<<"unlock">>, "none", {}))
             /\ Return(Fatal(ContextErr("failed to run rbw unlock")))
        ELSE /\ cmds' = Append(cmds, Cmd(<<"unlock">>, "reaped", {o[2]}))
             /\ IF UnlockFailed(o[2])
                THEN Return(Fatal(Err("rbw unlock failed (STATUS)", "rbw unlock",
                                      {o[2]}, <<>>)))
                ELSE /\ pc' = BodyStep(op.kind)
                     /\ result' = result
    /\ UNCHANGED <<envVars, op, spinner, stdinBytes, output, ranBefore>>

The(S) == CHOOSE x \in S : TRUE
LastChild(c, fate, exit) ==
    [c EXCEPT ![Len(c)].child = fate, ![Len(c)].exit = exit]

\* `?` returns while the Spinner is live: it goes out of scope without
\* stop_with_newline having been called
EarlyReturnSpinner == "dropped"

\* list_namespaces after output() (lines 52-63)
list_result(folder, out) ==
    LET e == check_status("rbw list", out)
        items == ParseList(out.stdout)
    IN  IF e # {} THEN Fatal(The(e))
        ELSE IF items = {} THEN Fatal(ContextErr("failed to parse rbw list --raw output"))
        ELSE OkNames(FilterNames(The(items), folder))

\* get_item after output() (lines 82-96)
get_result(out) ==
    LET item == ParseItem(out.stdout)
    IN  IF out.status # {0}
        THEN IF IsNotFound(out.stderr) THEN Absent
             ELSE Fatal(FailedErr("rbw get", The(out.status), out.stderr))
        ELSE IF item = {} THEN Fatal(ContextErr("failed to parse rbw get --raw output"))
        ELSE Present(The(item))

\* delete_item after output() (line 144)
delete_result(out) ==
    LET e == check_status("rbw remove", out)
    IN  IF e # {} THEN Fatal(The(e)) ELSE OkUnit

\* what a successful child of each capture operation can print on stdout
StdoutDocs(kind) ==
    CASE kind = "list" -> ListDocs \cup {MalformedDoc, ObjectDoc(NoItem)}
      [] kind = "get" -> ItemDocs \cup {MalformedDoc, EmptyDoc}
      [] OTHER -> {MalformedDoc}

\* capture mode, start: the spinner is started and output() spawns the child
CaptureSpawn ==
    /\ pc = "capture_spawn"
    /\ \E spawned \in BOOLEAN :
        IF spawned
        THEN /\ cmds' = Append(cmds, Cmd(VaultArgs(op), "running", {}))
             /\ spinner' = "spinning"
             /\ pc' = "capture_wait"
             /\ result' = result
        ELSE /\ cmds' = Append(cmds, Cmd(VaultArgs(op), "none", {}))
             /\ spinner' = EarlyReturnSpinner
             /\ Return(Fatal(ContextErr("failed to run " \o CmdName(op.kind))))
    /\ UNCHANGED <<envVars, op, stdinBytes, output, ranBefore>>

\* capture mode, end: output() returns, the spinner is stopped, the
\* operation classifies the exit status and parses stdout
CaptureFinish ==
    /\ pc = "capture_wait"
    /\ \E s \in ExitCodes :
       \E doc \in (IF s = 0 THEN StdoutDocs(op.kind) ELSE {MalformedDoc}) :
       \E text \in (IF s = 0 THEN {<<>>} ELSE StderrTexts) :
        LET out == Output(s, doc, text, TRUE)
        IN  /\ output' = out
            /\ cmds' = LastChild(cmds, "reaped", {s})
            /\ Return(CASE op.kind = "list" -> list_result(op.folder, out)
                        [] op.kind = "get" -> get_result(out)
                        [] op.kind = "delete" -> delete_result(out))
    /\ spinner' = "stopped"
    /\ UNCHANGED <<envVars, op, stdinBytes, ranBefore>>

\* pipe_to_rbw: the spinner is started and the child is spawned (lines 206-218)
PipeSpawn ==
    /\ pc = "pipe_spawn"
    /\ \E spawned \in BOOLEAN :
        IF spawned
        THEN /\ cmds' = Append(cmds, Cmd(VaultArgs(op), "running", {}))
             /\ spinner' = "spinning"
             /\ pc' = "pipe_write"
             /\ result' = result
        ELSE /\ cmds' = Append(cmds, Cmd(VaultArgs(op), "none", {}))
             /\ spinner' = EarlyReturnSpinner
             /\ Return(Fatal(ContextErr("failed to spawn rbw")))
    /\ UNCHANGED <<envVars, op, stdinBytes, output, ranBefore>>

\* pipe_to_rbw: the payload is written to the child's stdin, which is then
\* closed (lines 220-225)
PipeWrite ==
    /\ pc = "pipe_write"
    /\ \E written \in BOOLEAN :
        IF written
        THEN /\ stdinBytes' = Payload(op.kind, op.notes, op.is_secure_note)
             /\ spinner' = spinner
             /\ pc' = "pipe_wait"
             /\ result' = result
        ELSE /\ stdinBytes' = stdinBytes
             /\ spinner' = EarlyReturnSpinner
             /\ Return(Fatal(ContextErr("failed to write to rbw stdin")))
    /\ UNCHANGED <<envVars, op, cmds, output, ranBefore>>

\* pipe_to_rbw: wait for the child, stop the spinner, classify the exit
\* status (lines 227-232); the child's stderr is inherited, not captured
PipeWait ==
    /\ pc = "pipe_wait"
    /\ \E o \in Outcomes :
        IF o = IoErr
        THEN /\ cmds' = LastChild(cmds, "wait_failed", {})
             /\ spinner' = EarlyReturnSpinner
             /\ output' = output
             /\ Return(Fatal(ContextErr("failed to wait for rbw")))
        ELSE \E text \in (IF o[2] = 0 THEN {<<>>} ELSE PipeStderrTexts) :
             /\ cmds' = LastChild(cmds, "reaped", {o[2]})
             /\ spinner' = "stopped"
             /\ output' = Output(o[2], MalformedDoc, text, FALSE)
             /\ Return(IF o[2] # 0
                       THEN Fatal(Err("rbw exited with status STATUS", "rbw",
                                      {o[2]}, <<>>))
                       ELSE OkUnit)
    /\ UNCHANGED <<envVars, op, stdinBytes, ranBefore>>

Next ==
    \/ \E f \in Folders : list_namespaces(f)
    \/ \E n \in Names, f \in Folders : get_item(n, f)
    \/ \E n \in Names, f \in Folders, c \in NotesContents : create_item(n, f, c)
    \/ \E n \in Names, f \in Folders, c \in NotesContents, b \in BOOLEAN,
          t \in ItemTypes : edit_item(n, f, c, b, t)
    \/ \E n \in Names, f \in Folders : delete_item(n, f)
    \/ RunUnlocked
    \/ RunUnlock
    \/ CaptureSpawn
    \/ CaptureFinish
    \/ PipeSpawn
    \/ PipeWrite
    \/ PipeWait
    \/ CallerResumes

Spec == Init /\ [][Next]_vars

\* ================================================================ claims
VaultSubcommands == {"list", "get", "add", "edit", "remove"}
IsVaultCmd(c) == Head(c.args) \in VaultSubcommands
IsGuardCheck(c) == c.args = <<"unlocked">>
IsUnlock(c) == c.args = <<"unlock">>
Spawned(c) == c.child # "none"

\* C1: in every operation the `rbw unlocked` check has run to completion
\* before the operation's own vault subcommand is built or spawned: once
\* past the guard, the first command of the operation is the check, and
\* every vault subcommand has a completed check before it in the same
\* operation (the log `cmds` starts empty at every call).
C1_GuardBeforeVault ==
    /\ pc \notin {"idle", "ensure_unlocked"} =>
           /\ Len(cmds) >= 1
           /\ IsGuardCheck(cmds[1])
    /\ \A i \in 1..Len(cmds) :
           IsVaultCmd(cmds[i]) =>
               \E j \in 1..(i - 1) :
                   /\ IsGuardCheck(cmds[j])
                   /\ cmds[j].child = "reaped"

\* an edit, after an earlier operation of the same run, found the vault
\* locked, unlocked it and then ran `rbw edit`
C1_Witness ==
    /\ ranBefore
    /\ pc = "returned"
    /\ op.kind = "edit"
    /\ Len(cmds) = 3
    /\ IsGuardCheck(cmds[1]) /\ cmds[1].exit # {0}
    /\ IsUnlock(cmds[2]) /\ cmds[2].exit = {0}
    /\ IsVaultCmd(cmds[3]) /\ cmds[3].child = "reaped"

\* C2: a failing check followed by a failing `rbw unlock` ends the
\* operation with a fatal error at once: unlock is the last command of the
\* operation (no retry, no vault subcommand); unlock is run at most once;
\* and when the check exits zero unlock is not run at all.
C2_UnlockFailureIsFatal ==
    /\ \A i \in 1..Len(cmds) :
           (IsUnlock(cmds[i]) /\ cmds[i].exit \notin {{}, {0}}) =>
               /\ i = Len(cmds)
               /\ pc = "returned"
               /\ result.tag = "err"
    /\ Cardinality({i \in 1..Len(cmds) : IsUnlock(cmds[i])}) <= 1
    /\ \A i \in 1..Len(cmds) :
           IsUnlock(cmds[i]) =>
               /\ i = 2
               /\ IsGuardCheck(cmds[1])
               /\ cmds[1].exit \notin {{}, {0}}
    /\ \A i \in 1..Len(cmds) :
           (IsGuardCheck(cmds[i]) /\ cmds[i].exit = {0}) =>
               \A j \in 1..Len(cmds) : ~IsUnlock(cmds[j])

C2_Witness ==
    /\ pc = "returned"
    /\ Len(cmds) = 2
    /\ IsGuardCheck(cmds[1]) /\ cmds[1].exit = {1}
    /\ IsUnlock(cmds[2]) /\ cmds[2].exit = {1}
    /\ result.tag = "err"
    /\ result.err.cmd = "rbw unlock"

\* the text holds one of the three not-found phrasings
HasNotFoundPhrasing(t) ==
    \E p \in {NoEntryFound, NoItemsFound, EntryNotFound} :
        \E i \in 1..Len(t), j \in 1..Len(t) : SubSeq(t, i, j) = p

\* C3: when `rbw get` exits non-zero, get_item returns absent if the
\* stderr holds one of the three not-found phrasings, and a fatal error
\* otherwise.
C3_NotFoundIsAbsent ==
    (pc = "returned" /\ op.kind = "get" /\ output.status \notin {{}, {0}}) =>
        IF HasNotFoundPhrasing(output.stderr)
        THEN result = Absent
        ELSE result.tag = "err"

C3_Witness ==
    /\ pc = "returned"
    /\ op.kind = "get"
    /\ output.status = {1}
    /\ output.stderr = <<SP, "rbw:", SP>> \o EntryNotFound \o <<NL>>
    /\ result = Absent

\* t is s without its leading and trailing whitespace
IsTrimOf(t, s) ==
    /\ t = <<>> \/ (t[1] \notin Whitespace /\ t[Len(t)] \notin Whitespace)
    /\ \E i \in 0..Len(s) :
           /\ i + Len(t) <= Len(s)
           /\ \A k \in 1..Len(s) :
                  IF k <= i \/ k > i + Len(t)
                  THEN s[k] \in Whitespace
                  ELSE s[k] = t[k - i]

\* the operation's own subcommand exited non-zero and this was not the
\* not-found case of get_item
GenericFailure ==
    /\ pc = "returned"
    /\ output.status \notin {{}, {0}}
    /\ ~(op.kind = "get" /\ HasNotFoundPhrasing(output.stderr))

\* C4 as stated: every generic command failure returns a fatal error whose
\* message holds a command name, the exit status and the trimmed stderr
\* text of the failed subprocess.
C4_Original ==
    GenericFailure =>
        /\ result.tag = "err"
        /\ result.err.cmd # ""
        /\ result.err.status = output.status
        /\ IsTrimOf(result.err.text, output.stderr)

\* C4 as amended: list_namespaces, get_item and delete_item (capture mode)
\* report "rbw list" / "rbw get" / "rbw remove", the exit status and the
\* trimmed stderr text; create_item and edit_item (piped mode, stderr
\* inherited) report "rbw" and the exit status, and no stderr text.
C4_FailureMessage ==
    GenericFailure =>
        /\ result.tag = "err"
        /\ result.err.status = output.status
        /\ op.kind = "list" => result.err.cmd = "rbw list"
        /\ op.kind = "get" => result.err.cmd = "rbw get"
        /\ op.kind = "delete" => result.err.cmd = "rbw remove"
        /\ op.kind \in {"list", "get", "delete"} =>
               IsTrimOf(result.err.text, output.stderr)
        /\ op.kind \in {"create", "edit"} =>
               /\ result.err.cmd = "rbw"
               /\ result.err.text = <<>>

C4_Witness ==
    /\ GenericFailure
    /\ op.kind = "delete"
    /\ output.status = {1}
    /\ output.stderr = <<SP, "rbw:", SP, "agent", SP, "unreachable", NL>>
    /\ result.err.text = <<"rbw:", SP, "agent", SP, "unreachable">>

\* C5 as stated: when an operation returns, every spinner it started has
\* been stopped by stop_with_newline.
C5_SpinnerStopped == pc = "returned" => spinner \in {"none", "stopped"}

\* C6 as stated: when an operation returns, every child it spawned has
\* been waited for successfully.
C6_ChildrenReaped ==
    pc = "returned" =>
        \A i \in 1..Len(cmds) : cmds[i].child \in {"none", "reaped"}

\* C7 as stated: a child's RBW_TTY is the resolved path, and is absent
\* when the resolver returned unavailable.
C7_Original ==
    \A i \in 1..Len(cmds) :
        /\ cmds[i].tty_path # {} => cmds[i].rbw_tty = cmds[i].tty_path
        /\ cmds[i].tty_path = {} => cmds[i].rbw_tty = {}

\* C7 as amended: a child's RBW_TTY is the resolved path; when the
\* resolver returned unavailable the adapter sets nothing, so the child has
\* the RBW_TTY of the adapter's own environment (absent only if that is).
C7_ChildRbwTty ==
    \A i \in 1..Len(cmds) :
        /\ cmds[i].tty_path # {} => cmds[i].rbw_tty = cmds[i].tty_path
        /\ cmds[i].tty_path = {} => cmds[i].rbw_tty = ownRbwTty

C7_Witness ==
    /\ ownRbwTty # {}
    /\ \E i \in 1..Len(cmds) :
           /\ IsVaultCmd(cmds[i])
           /\ Spawned(cmds[i])
           /\ cmds[i].tty_path # {}
           /\ cmds[i].tty_path # ownRbwTty
           /\ cmds[i].rbw_tty = cmds[i].tty_path

\* the link was read and its target begins with "/dev/"
IsDevLink(link) ==
    \E p \in link : Len(p) >= 3 /\ p[1] = "/" /\ p[2] = "dev" /\ p[3] = "/"

\* C8: the resolver returns the fd 2 target when that is a /dev/ path, even
\* if fd 0 is one too; else the fd 0 target when that is a /dev/ path;
\* "/dev/tty" as the fallback only when both probes fail and /dev/tty
\* exists; unavailable exactly when all three checks fail.
C8_ResolverOrder ==
    \A i \in 1..Len(cmds) :
        LET r == cmds[i].tty_path
        IN  /\ IsDevLink(fd2Link) => r = fd2Link
            /\ (~IsDevLink(fd2Link) /\ IsDevLink(fd0Link)) => r = fd0Link
            /\ (~IsDevLink(fd2Link) /\ ~IsDevLink(fd0Link) /\ devTtyExists) =>
                   r = {DevTty}
            /\ (r = {DevTty} /\ fd2Link # {DevTty} /\ fd0Link # {DevTty}) =>
                   (~IsDevLink(fd2Link) /\ ~IsDevLink(fd0Link) /\ devTtyExists)
            /\ r = {} <=>
                   (~IsDevLink(fd2Link) /\ ~IsDevLink(fd0Link) /\ ~devTtyExists)

C8_Witness ==
    /\ fd2Link = {DevPts}
    /\ fd0Link = {DevTty}
    /\ devTtyExists
    /\ \E i \in 1..Len(cmds) : cmds[i].tty_path = {DevPts}

\* folder of a listed entry; an absent folder counts as ""
FolderOf(it) == IF it.folder = {} THEN "" ELSE The(it.folder)

\* C9: when the guard and `rbw list --raw` succeed and the output parses,
\* list_namespaces(f) returns the names of exactly the entries whose folder
\* is f, in listing order, duplicates kept, whatever their type.
C9_ListFilter ==
    (pc = "returned" /\ op.kind = "list" /\ output.status = {0}
        /\ output.stdout.kind = "array") =>
        LET items == output.stdout.items
            idx == {i \in 1..Len(items) : FolderOf(items[i]) = op.folder}
            nth(k) == CHOOSE i \in idx : Cardinality({j \in idx : j <= i}) = k
        IN  /\ result.tag = "ok"
            /\ Len(result.names) = Cardinality(idx)
            /\ \A k \in 1..Len(result.names) :
                   result.names[k] = items[nth(k)].name

C9_Witness ==
    /\ pc = "returned"
    /\ op.kind = "list"
    /\ op.folder = ""
    /\ output.stdout.kind = "array"
    /\ Len(output.stdout.items) = 2
    /\ output.stdout.items[1] = [name |-> "db", folder |-> {}, item_type |-> "Note"]
    /\ output.stdout.items[2] = [name |-> "api", folder |-> {""}, item_type |-> "Login"]
    /\ result.names = <<"db", "api">>

\* C10: the bytes written to the child's stdin are the notes and one
\* newline for edit_item with is_secure_note, and a newline, the notes and
\* a newline for edit_item without it and for create_item, whatever type the
\* vault holds for the entry.
C10_PayloadBytes ==
    /\ pc = "pipe_wait" => stdinBytes # <<>>
    /\ stdinBytes # <<>> =>
           LET n == Len(op.notes)
               lead == IF op.kind = "edit" /\ op.is_secure_note THEN 0 ELSE 1
           IN  /\ Len(stdinBytes) = lead + n + 1
               /\ lead = 1 => stdinBytes[1] = NL
               /\ \A k \in 1..n : stdinBytes[lead + k] = op.notes[k]
               /\ stdinBytes[lead + n + 1] = NL

C10_Witness ==
    /\ op.kind = "edit"
    /\ op.is_secure_note
    /\ op.stored = "Login"
    /\ op.notes = <<"k=v", NL>>
    /\ stdinBytes = <<"k=v", NL, NL>>

====
